---- MODULE Spec2Model ----
(***************************************************************************)
(* Case record store, status transition engine and audit log of the       *)
(* travel-agency back office (backend/app/routes/clients.py,               *)
(* backend/app/routes/auth.py, backend/app/models/client.py).              *)
(*                                                                         *)
(* Every request is served by a worker with its own ORM session.  A        *)
(* handler runs in the steps at which it touches the database: it loads    *)
(* (SELECT), then flushes and commits its unit of work in one database     *)
(* transaction (PostgreSQL, READ COMMITTED, backend/app/main.py:38), then  *)
(* writes the audit row in a second transaction and returns.               *)
(***************************************************************************)
EXTENDS Integers, Sequences, FiniteSets, Bags, TLC

\* ------------------------------------------------------------------ bounds
MaxClients == 1
MaxApps == 1
MaxHistory == 3
MaxClock == 1
MaxFaults == 1
\* the tables of the specifications that need two rows side by side
MaxClientsMany == 2
MaxAppsMany == 2
\* audit rows after which a record is edited no more
MaxAudit == 3
\* users added to the staff accounts
MaxUsers == 1
\* tours stored, places of a tour, bookings stored
MaxTours == 1
MaxSlots == 2
MaxBookings == 2

\* ------------------------------------------------------------- value sets
Workers == {"w1", "w2"}
ClientIds == 1..MaxClients
AppIds == 1..MaxApps
Days == 0..MaxClock

\* A nullable column holds <<>> (NULL) or <<v>>.
NULL == <<>>
Some(v) == <<v>>

valid_statuses == <<"pending", "processing", "approved", "rejected", "completed">>
ValidStatusSet == {valid_statuses[i] : i \in DOMAIN valid_statuses}
\* data.get('status'): a valid status, a value outside the enumeration, none
RequestedStatuses == ValidStatusSet \cup {"archived", ""}
\* request.get_json(): None, or an object with that status
RequestBodies(statuses) == {Some(s) : s \in statuses}

\* Caller identities as get_jwt_identity() returns them: staff user ids, an
\* id with no User row, and customer identities "client_<id>".
StaffIds == {"u1", "u2", "u3"}
CustomerIdentities == {"client_c1"}
Identities == StaffIds \cup {"u0"} \cup CustomerIdentities
\* variant: no identity is taken for a customer's
startswith_never(identity) == FALSE
startswith_client(identity) == identity \in CustomerIdentities

\* Reference data of the identity store: roles and their permissions.
role_permissions ==
  [r \in {"admin", "agent", "viewer"} |->
     CASE r = "admin" -> {"clients.view", "clients.create", "clients.edit",
                          "clients.delete", "applications.create",
                          "applications.process", "users.create",
                          "users.edit", "users.delete"}
       [] r = "agent" -> {"applications.process"}
       [] OTHER -> {"clients.view"}]
\* the staff accounts the identity store starts with
user_email ==
  [u \in StaffIds |->
     CASE u = "u1" -> "u1@x.com" [] u = "u2" -> "u2@x.com" [] OTHER -> "u3@x.com"]
UserRow(email, is_active, roles) ==
  [email |-> email, is_active |-> is_active, roles |-> roles]
user_roles ==
  [u \in StaffIds |->
     CASE u = "u1" -> {"admin"}
       [] u = "u2" -> {"agent", "viewer"}
       [] OTHER -> {"viewer"}]
\* e-mail addresses as sent, and str.lower() of each
Emails == {"Ana@X.com", "ana@x.com", "bo@y.org"}
\* variant: the address is compared and stored as it was sent
lower_as_sent(email) == email
lower(email) == IF email = "Ana@X.com" THEN "ana@x.com" ELSE email

\* ------------------------------------------------------------------ state
VARIABLES
  clients,         \* table clients: id -> row, for the stored rows
  client_uuids,    \* number of client ids drawn so far (uuid4 never repeats)
  applications,    \* table applications: id -> row, for the stored rows
  status_history,  \* table application_status_history, per application in
                   \* changed_at order
  audit_log,       \* table audit_logs: the bag of its rows
  clock,           \* datetime.utcnow(), in days
  faults,          \* number of store failures so far
  session,         \* per worker: the request it serves step by step, with
                   \* what its ORM session has loaded
  response,        \* what the step just taken returned to its caller, if
                   \* it returned
  users,           \* table users with user_roles: id -> row
  tours,           \* table tours: id -> row, for the stored rows
  bookings         \* table bookings: id -> row, for the stored rows

vars == <<clients, client_uuids, applications, status_history, audit_log,
          clock, faults, session, response, users, tours, bookings>>
store == <<clients, applications, status_history, audit_log>>
shop == <<tours, bookings>>

\* ------------------------------------------------------- authorization
\* User.has_permission: the union of the permissions of the user's roles
has_permission(user, permission_name) ==
  \E r \in users[user].roles : permission_name \in role_permissions[r]

\* require_permission: the HTTP status the decorator answers with, 0 when it
\* lets the call through.
\* variant: any stored user passes
require_permission_any_user(identity, permission_name) ==
  IF startswith_client(identity) \/ identity \notin DOMAIN users THEN 403
  ELSE 0
require_permission(identity, permission_name) ==
  IF startswith_client(identity) THEN 403
  ELSE IF identity \notin DOMAIN users
          \/ ~has_permission(identity, permission_name)
       THEN 403
       ELSE 0
DeniedBody(identity) ==
  IF startswith_client(identity) THEN "Access denied" ELSE "Insufficient permissions"

\* @jwt_required(), the outer decorator: a request without a usable token
\* is answered 401 by the loaders of main.py before the route is entered.
TokenErrors == {"no_token", "bad_token", "expired_token"}
Callers == Identities \cup TokenErrors
jwt_required(caller) == IF caller \in TokenErrors THEN 401 ELSE 0
TokenBody(caller) ==
  CASE caller = "no_token" -> "Authorization token is required"
    [] caller = "expired_token" -> "Token has expired"
    [] OTHER -> "Invalid token"
\* variant: the permission check alone
guard_without_token_check(caller, permission_name) ==
  require_permission(caller, permission_name)
\* @jwt_required() @require_permission(permission_name) on a route
guard(caller, permission_name) ==
  IF jwt_required(caller) # 0 THEN jwt_required(caller)
  ELSE require_permission(caller, permission_name)
GuardBody(caller) ==
  IF jwt_required(caller) # 0 THEN TokenBody(caller) ELSE DeniedBody(caller)

Idle == [pc |-> "idle", op |-> "", actor |-> "", target |-> 0,
         new_status |-> "", old_status |-> "", had_completion |-> FALSE]

NoResponse == [op |-> "", target |-> 0, code |-> 0, body |-> ""]

Init ==
  /\ clients = <<>>
  /\ client_uuids = 0
  /\ applications = <<>>
  /\ status_history = <<>>
  /\ audit_log = EmptyBag
  /\ clock = 0
  /\ faults = 0
  /\ session = [w \in Workers |-> Idle]
  /\ response = NoResponse
  /\ users = [u \in StaffIds |-> UserRow(user_email[u], TRUE, user_roles[u])]
  /\ tours = <<>>
  /\ bookings = <<>>

\* jsonify(...), code: the handler returns
Respond(op, target, code, body) ==
  response' = [op |-> op, target |-> target, code |-> code, body |-> body]
\* the step returns nothing: the handler goes on
Continue == response' = NoResponse

\* What the store does to a handler: it works, it fails the handler's
\* commit, or it fails the commit of the audit row.
Outcomes == {"ok", "commit_fails", "audit_fails"}
StoreDoes(outcome) ==
  IF outcome = "ok" THEN faults' = faults
  ELSE faults < MaxFaults /\ faults' = faults + 1

\* Rows the requests in flight will still add when they commit.
Loaded(op) == {w \in Workers : session[w].pc = "loaded" /\ session[w].op = op}
HistoryRows ==
  Cardinality({<<a, i>> \in (1..MaxAppsMany) \X (1..MaxHistory) :
                 a \in DOMAIN status_history /\ i <= Len(status_history[a])})
RoomForClient == client_uuids < MaxClientsMany
RoomForApplication == Cardinality(DOMAIN applications) < MaxAppsMany
RoomForAudit == BagCardinality(audit_log) < MaxAudit
RoomForHistory ==
  HistoryRows + Cardinality(Loaded("update_application_status")) < MaxHistory

\* A return before anything was written: validation, not found, denied.
EarlyReturn(op, target, code, body) ==
  /\ Respond(op, target, code, body)
  /\ UNCHANGED <<clients, client_uuids, applications, status_history,
                 audit_log, faults>>

\* except Exception: db.session.rollback(); 500
Rollback500(op, target) ==
  /\ Respond(op, target, 500, "Internal server error")
  /\ UNCHANGED <<clients, client_uuids, applications, status_history,
                 audit_log>>

\* log_user_activity: the audit row is added and committed in a transaction
\* of its own, after the handler's commit; a failure is caught and logged.
AuditRow(user_id, action, resource_type, resource_id) ==
  [user_id |-> user_id, action |-> action, resource_type |-> resource_type,
   resource_id |-> resource_id]
\* variant: no audit row is written
log_user_activity_skipped(user_id, action, resource_type, resource_id, outcome) ==
  audit_log' = audit_log

log_user_activity(user_id, action, resource_type, resource_id, outcome) ==
  audit_log' =
    IF outcome = "audit_fails" THEN audit_log
    ELSE audit_log (+)
           SetToBag({AuditRow(user_id, action, resource_type, resource_id)})

\* The handlers that end with to_dict(): after a failed audit commit the
\* session's transaction is inactive and its rows are expired, so to_dict()
\* raises and the handler's except answers 500.
RespondWithRow(op, target, code, body, outcome) ==
  IF outcome = "audit_fails"
  THEN Respond(op, target, 500, "Internal server error")
  ELSE Respond(op, target, code, body)

\* ---------------------------------------------------------- create_client
\* Client(...): the e-mail address in lower case; of the other columns the
\* name and the passport number, as one request sends them
ClientRow(email) ==
  [email |-> lower(email), first_name |-> "Ana", passport_number |-> "P1"]

create_client(actor, email, has_required, outcomes) ==
  /\ LET denied == guard(actor, "clients.create")
         id == client_uuids + 1
     IN
     IF denied # 0
     THEN EarlyReturn("create_client", 0, denied, GuardBody(actor))
     ELSE IF ~has_required
     THEN EarlyReturn("create_client", 0, 400, "field is required")
     ELSE IF \E c \in DOMAIN clients : clients[c].email = lower(email)
     THEN EarlyReturn("create_client", 0, 400,
                      "Client with this email already exists")
     ELSE \E outcome \in outcomes :
          /\ RoomForClient
          /\ StoreDoes(outcome)
          /\ IF outcome = "commit_fails"
             THEN Rollback500("create_client", 0) /\ UNCHANGED client_uuids
             ELSE /\ clients' = clients @@ (id :> ClientRow(email))
                  /\ client_uuids' = id
                  /\ log_user_activity(actor, "create_client", "client", id,
                                       outcome)
                  /\ RespondWithRow("create_client", id, 201,
                                    "Client created successfully", outcome)
                  /\ UNCHANGED <<applications, status_history>>
  /\ UNCHANGED <<shop, clock, session, users>>

\* ---------------------------------------------------------- update_client
\* request.get_json() of a PUT: None, or an object with some of the columns
ClientPatches(emails) ==
  {NULL, Some([first_name |-> "Li"]), Some([passport_number |-> "P2"])}
    \cup {Some([email |-> e]) : e \in emails}
    \cup {Some([first_name |-> "Li", email |-> e]) : e \in emails}


\* Client.query.filter_by(email=data['email'].lower()).first() finds a row
\* of another client
email_taken(client_id, obj) ==
  /\ "email" \in DOMAIN obj
  /\ \E c \in DOMAIN clients :
       clients[c].email = lower(obj.email) /\ c # client_id

\* the assignments 'if <column> in data: client.<column> = data[<column>]'
patched(row, obj) ==
  [f \in DOMAIN row |->
     IF f \notin DOMAIN obj THEN row[f]
     ELSE IF f = "email" THEN lower(obj[f]) ELSE obj[f]]

update_client(actor, client_id, data, outcomes) ==
  /\ LET denied == guard(actor, "clients.edit") IN
     IF denied # 0
     THEN EarlyReturn("update_client", client_id, denied, GuardBody(actor))
     ELSE IF client_id \notin DOMAIN clients
     THEN EarlyReturn("update_client", client_id, 404, "Client not found")
     ELSE IF data = NULL
     THEN \* 'first_name' in None raises TypeError: except, rollback, 500
          EarlyReturn("update_client", client_id, 500, "Internal server error")
     ELSE IF email_taken(client_id, data[1])
     THEN \* assignments made so far are dropped with the session
          EarlyReturn("update_client", client_id, 400, "Email already exists")
     ELSE \E outcome \in outcomes :
          /\ RoomForAudit
          /\ StoreDoes(outcome)
          /\ IF outcome = "commit_fails"
             THEN Rollback500("update_client", client_id)
             ELSE /\ clients' =
                       [clients EXCEPT ![client_id] = patched(@, data[1])]
                  /\ log_user_activity(actor, "update_client", "client",
                                       client_id, outcome)
                  /\ RespondWithRow("update_client", client_id, 200,
                                    "Client updated successfully", outcome)
                  /\ UNCHANGED <<client_uuids, applications, status_history>>
  /\ UNCHANGED <<shop, clock, session, users>>

\* ---------------------------------------------------------- delete_client
\* variant: the flush deletes the client whatever references it
delete_flush_accepted_always(client_id) == TRUE

\* variant: only pending applications count as active
active_applications_pending_only(client_id) ==
  Cardinality({a \in DOMAIN applications :
                 /\ applications[a].client_id = client_id
                 /\ applications[a].status = "pending"})

active_applications(client_id) ==
  Cardinality({a \in DOMAIN applications :
                 /\ applications[a].client_id = client_id
                 /\ applications[a].status \in {"pending", "processing"}})

\* db.session.delete(client): Client.applications has no delete cascade, so
\* the flush loads the client's applications and sets their client_id to
\* NULL, which the NOT NULL column refuses (IntegrityError).
delete_flush_accepted(client_id) ==
  \A a \in DOMAIN applications : applications[a].client_id # client_id

delete_client(actor, client_id, outcomes) ==
  /\ LET denied == guard(actor, "clients.delete") IN
     IF denied # 0
     THEN EarlyReturn("delete_client", client_id, denied, GuardBody(actor))
     ELSE IF client_id \notin DOMAIN clients
     THEN EarlyReturn("delete_client", client_id, 404, "Client not found")
     ELSE IF active_applications(client_id) > 0
     THEN EarlyReturn("delete_client", client_id, 400,
                      "Cannot delete client with active applications")
     ELSE \E outcome \in outcomes :
          /\ StoreDoes(outcome)
          /\ IF outcome = "commit_fails" \/ ~delete_flush_accepted(client_id)
             THEN Rollback500("delete_client", client_id)
             ELSE /\ clients' =
                       [c \in DOMAIN clients \ {client_id} |-> clients[c]]
                  /\ log_user_activity(actor, "delete_client", "client",
                                       client_id, outcome)
                  /\ Respond("delete_client", client_id, 200,
                             "Client deleted successfully")
                  /\ UNCHANGED <<client_uuids, applications, status_history>>
  /\ UNCHANGED <<shop, clock, session, users>>

\* ----------------------------------------------------- create_application
\* f"TR{date}{uuid4()[:8]}": the day and a random suffix
TrackingSuffixes == {"A1", "B2"}
tracking_id_of(day, suffix) == <<day, suffix>>

ApplicationRow(tracking_id, client_id) ==
  [tracking_id |-> tracking_id, client_id |-> client_id, status |-> "pending",
   actual_completion |-> NULL, updated_at |-> clock]
HistoryRow(old_status, new_status, changed_by) ==
  [old_status |-> old_status, new_status |-> new_status,
   changed_by |-> changed_by, changed_at |-> clock]

\* variant: the creation entry records pending as the previous status
initial_history_from_pending(actor) ==
  <<HistoryRow(Some("pending"), "pending", actor)>>

\* the creation entry of the status history
initial_history(actor) == <<HistoryRow(NULL, "pending", actor)>>

\* variant: the column is not unique
insert_accepted_always(tracking_id) == TRUE

\* the INSERT is refused on a tracking_id that is not unique
insert_accepted(tracking_id) ==
  \A a \in DOMAIN applications : applications[a].tracking_id # tracking_id

create_application(actor, client_id, has_type, estimated, suffix, outcomes) ==
  /\ LET denied == guard(actor, "applications.create")
         id == Cardinality(DOMAIN applications) + 1
         tracking_id == tracking_id_of(clock, suffix)
     IN
     IF denied # 0
     THEN EarlyReturn("create_application", client_id, denied, GuardBody(actor))
     ELSE IF client_id \notin DOMAIN clients
     THEN EarlyReturn("create_application", client_id, 404, "Client not found")
     ELSE IF ~has_type
     THEN EarlyReturn("create_application", client_id, 400,
                      "application_type is required")
     ELSE IF estimated = "invalid"
     THEN \* strptime raises ValueError: except Exception, rollback, 500
          EarlyReturn("create_application", client_id, 500,
                      "Internal server error")
     ELSE \E outcome \in outcomes :
          /\ RoomForApplication
          /\ RoomForHistory
          /\ StoreDoes(outcome)
          /\ IF outcome = "commit_fails" \/ ~insert_accepted(tracking_id)
             THEN Rollback500("create_application", client_id)
             ELSE /\ applications' = applications @@
                       (id :> ApplicationRow(tracking_id, client_id))
                  /\ status_history' = status_history @@
                       (id :> initial_history(actor))
                  /\ log_user_activity(actor, "create_application",
                                       "application", id, outcome)
                  /\ RespondWithRow("create_application", client_id, 201,
                                    "Application created successfully", outcome)
                  /\ UNCHANGED <<clients, client_uuids>>
  /\ UNCHANGED <<shop, clock, session, users>>

\* ----------------------------------------------- update_application_status
\* The checks before the handler touches the row: the response code, 0 when
\* the request passes.
\* variant: a rejected or completed application accepts no further status
update_rejected_terminal(actor, application_id, data) ==
  LET denied == guard(actor, "applications.process") IN
  IF denied # 0 THEN [code |-> denied, body |-> GuardBody(actor)]
  ELSE IF application_id \notin DOMAIN applications
  THEN [code |-> 404, body |-> "Application not found"]
  ELSE IF data = NULL
  THEN [code |-> 500, body |-> "Internal server error"]
  ELSE IF data[1] = ""
  THEN [code |-> 400, body |-> "status is required"]
  ELSE IF data[1] \notin ValidStatusSet
          \/ applications[application_id].status \in {"rejected", "completed"}
  THEN [code |-> 400, body |-> "Invalid status"]
  ELSE [code |-> 0, body |-> ""]

\* variant: the requested status is not held against valid_statuses
update_rejected_no_enum(actor, application_id, data) ==
  LET denied == guard(actor, "applications.process") IN
  IF denied # 0 THEN [code |-> denied, body |-> GuardBody(actor)]
  ELSE IF application_id \notin DOMAIN applications
  THEN [code |-> 404, body |-> "Application not found"]
  ELSE IF data = NULL
  THEN [code |-> 500, body |-> "Internal server error"]
  ELSE IF data[1] = ""
  THEN [code |-> 400, body |-> "status is required"]
  ELSE [code |-> 0, body |-> ""]

update_rejected(actor, application_id, data) ==
  LET denied == guard(actor, "applications.process") IN
  IF denied # 0 THEN [code |-> denied, body |-> GuardBody(actor)]
  ELSE IF application_id \notin DOMAIN applications
  THEN [code |-> 404, body |-> "Application not found"]
  ELSE IF data = NULL
  THEN [code |-> 500, body |-> "Internal server error"]
  ELSE IF data[1] = ""
  THEN [code |-> 400, body |-> "status is required"]
  ELSE IF data[1] \notin ValidStatusSet
  THEN [code |-> 400, body |-> "Invalid status"]
  ELSE [code |-> 0, body |-> ""]

\* application.status = new_status ... db.session.commit(): the unit of work
\* is UPDATE applications SET <the attributes whose value differs from the
\* loaded one>, INSERT the history row, COMMIT.  old_status and
\* had_completion are what the session loaded.
\* variant: every completing status stamps actual_completion again
sets_completion_each_time(new_status, had_completion) ==
  new_status \in {"completed", "approved"}
\* variant: approval does not stamp actual_completion
sets_completion_completed_only(new_status, had_completion) ==
  new_status = "completed" /\ ~had_completion
sets_completion(new_status, had_completion) ==
  new_status \in {"completed", "approved"} /\ ~had_completion
\* variant: the UPDATE leaves the status column out
flushed_application_keeps_status(row, old_status, had_completion, new_status) ==
  [row EXCEPT
     !.updated_at = clock,
     !.actual_completion =
        IF sets_completion(new_status, had_completion) THEN Some(clock) ELSE @]

flushed_application(row, old_status, had_completion, new_status) ==
  [row EXCEPT
     !.status = IF new_status # old_status THEN new_status ELSE @,
     !.updated_at = clock,
     !.actual_completion =
        IF sets_completion(new_status, had_completion) THEN Some(clock) ELSE @]

\* variant: the UPDATE has no WHERE on the id: every application is written
update_flush_every_row(actor, id, old_status, had_completion, new_status, outcome) ==
  /\ applications' =
       [a \in DOMAIN applications |->
          flushed_application(applications[a], old_status, had_completion, new_status)]
  /\ status_history' =
       [status_history EXCEPT ![id] =
          Append(@, HistoryRow(Some(old_status), new_status, actor))]
  /\ log_user_activity(actor, "update_application_status",
                       "application", id, outcome)
  /\ RespondWithRow("update_application_status", id, 200,
                    "Application status updated successfully", outcome)
  /\ UNCHANGED <<clients, client_uuids>>

\* variant: the entry of a status update replaces the history
update_flush_overwrites(actor, id, old_status, had_completion, new_status, outcome) ==
  /\ applications' =
       [applications EXCEPT ![id] =
          flushed_application(@, old_status, had_completion, new_status)]
  /\ status_history' =
       [status_history EXCEPT ![id] =
          <<HistoryRow(Some(old_status), new_status, actor)>>]
  /\ log_user_activity(actor, "update_application_status",
                       "application", id, outcome)
  /\ RespondWithRow("update_application_status", id, 200,
                    "Application status updated successfully", outcome)
  /\ UNCHANGED <<clients, client_uuids>>

\* the writes of one status update and what follows their COMMIT
update_flush(actor, id, old_status, had_completion, new_status, outcome) ==
  /\ applications' =
       [applications EXCEPT ![id] =
          flushed_application(@, old_status, had_completion, new_status)]
  /\ status_history' =
       [status_history EXCEPT ![id] =
          Append(@, HistoryRow(Some(old_status), new_status, actor))]
  /\ log_user_activity(actor, "update_application_status",
                       "application", id, outcome)
  /\ RespondWithRow("update_application_status", id, 200,
                    "Application status updated successfully", outcome)
  /\ UNCHANGED <<clients, client_uuids>>

\* variant: a request for the status the application has writes nothing
update_commit_skips_same_status(actor, id, old_status, had_completion, new_status, outcome) ==
  /\ StoreDoes(outcome)
  /\ IF outcome = "commit_fails"
     THEN Rollback500("update_application_status", id)
     ELSE IF new_status = old_status
     THEN /\ Respond("update_application_status", id, 200,
                     "Application status updated successfully")
          /\ UNCHANGED <<clients, client_uuids, applications, status_history,
                         audit_log>>
     ELSE update_flush(actor, id, old_status, had_completion, new_status,
                       outcome)

\* variant: a failed COMMIT keeps the UPDATE and loses the history row
update_commit_partial(actor, id, old_status, had_completion, new_status, outcome) ==
  /\ StoreDoes(outcome)
  /\ IF outcome = "commit_fails"
     THEN /\ applications' =
               [applications EXCEPT ![id] =
                  flushed_application(@, old_status, had_completion, new_status)]
          /\ Respond("update_application_status", id, 500,
                     "Internal server error")
          /\ UNCHANGED <<clients, client_uuids, status_history, audit_log>>
     ELSE update_flush(actor, id, old_status, had_completion, new_status,
                       outcome)

update_commit(actor, id, old_status, had_completion, new_status, outcome) ==
  /\ StoreDoes(outcome)
  /\ IF outcome = "commit_fails"
     THEN Rollback500("update_application_status", id)
     ELSE update_flush(actor, id, old_status, had_completion, new_status,
                       outcome)

\* the handler, served with no other request in between
update_application_status(actor, application_id, data, outcomes) ==
  /\ LET rejected == update_rejected(actor, application_id, data) IN
     IF rejected.code # 0
     THEN EarlyReturn("update_application_status", application_id,
                      rejected.code, rejected.body)
     ELSE \E outcome \in outcomes :
          /\ RoomForHistory
          /\ update_commit(actor, application_id,
                           applications[application_id].status,
                           applications[application_id].actual_completion # NULL,
                           data[1], outcome)
  /\ UNCHANGED <<shop, clock, session, users>>

\* the handler in the steps at which it reaches the database, for requests
\* served concurrently: Application.query.get ...
update_application_status_load(w, actor, application_id, data) ==
  /\ session[w].pc = "idle"
  /\ update_rejected(actor, application_id, data).code = 0
  /\ RoomForHistory
  /\ session' = [session EXCEPT ![w] =
       [pc |-> "loaded", op |-> "update_application_status", actor |-> actor,
        target |-> application_id, new_status |-> data[1],
        old_status |-> applications[application_id].status,
        had_completion |->
          applications[application_id].actual_completion # NULL]]
  /\ Continue
  /\ UNCHANGED <<clients, client_uuids, applications, status_history,
                 audit_log, clock, faults, users, shop>>

\* ... and db.session.commit() with what follows it
update_application_status_commit(w, outcomes) ==
  /\ session[w].pc = "loaded"
  /\ session[w].op = "update_application_status"
  /\ \E outcome \in outcomes :
       update_commit(session[w].actor, session[w].target,
                     session[w].old_status, session[w].had_completion,
                     session[w].new_status, outcome)
  /\ session' = [session EXCEPT ![w] = Idle]
  /\ UNCHANGED <<shop, clock, users>>

\* --------------------------------------- client requests served concurrently
\* create_client up to its commit: the guard, the required fields and
\* Client.query.filter_by(email=...).first() on what is committed
create_client_load(w, actor, email) ==
  /\ session[w].pc = "idle"
  /\ guard(actor, "clients.create") = 0
  /\ ~\E c \in DOMAIN clients : clients[c].email = lower(email)
  /\ client_uuids + Cardinality(Loaded("create_client")) < MaxClientsMany
  /\ session' = [session EXCEPT ![w] =
       [pc |-> "loaded", op |-> "create_client", actor |-> actor,
        target |-> 0, email |-> email]]
  /\ Continue
  /\ UNCHANGED <<store, client_uuids, clock, faults, users, shop>>

\* db.session.add(client); db.session.commit(): clients.email is declared
\* without a unique constraint, the INSERT is accepted whatever is stored
create_client_commit(w) ==
  /\ session[w].pc = "loaded"
  /\ session[w].op = "create_client"
  /\ LET id == client_uuids + 1 IN
     /\ clients' = clients @@ (id :> ClientRow(session[w].email))
     /\ client_uuids' = id
     /\ log_user_activity(session[w].actor, "create_client", "client", id,
                          "ok")
     /\ Respond("create_client", id, 201, "Client created successfully")
  /\ session' = [session EXCEPT ![w] = Idle]
  /\ UNCHANGED <<applications, status_history, clock, faults, users, shop>>

\* delete_client up to db.session.delete: Client.query.get and the count of
\* the client's pending and processing applications, on what is committed
delete_client_load(w, actor, client_id) ==
  /\ session[w].pc = "idle"
  /\ guard(actor, "clients.delete") = 0
  /\ client_id \in DOMAIN clients
  /\ active_applications(client_id) = 0
  /\ session' = [session EXCEPT ![w] =
       [pc |-> "loaded", op |-> "delete_client", actor |-> actor,
        target |-> client_id]]
  /\ Continue
  /\ UNCHANGED <<store, client_uuids, clock, faults, users, shop>>

\* db.session.delete(client); db.session.commit(): the flush fails on a row
\* that is gone (StaleDataError) and on applications that reference the
\* client, those committed since the load included (the foreign key of
\* applications.client_id has no ON DELETE action)
delete_client_commit(w) ==
  /\ session[w].pc = "loaded"
  /\ session[w].op = "delete_client"
  /\ LET client_id == session[w].target IN
     IF client_id \notin DOMAIN clients \/ ~delete_flush_accepted(client_id)
     THEN Rollback500("delete_client", client_id)
     ELSE /\ clients' = [c \in DOMAIN clients \ {client_id} |-> clients[c]]
          /\ log_user_activity(session[w].actor, "delete_client", "client",
                               client_id, "ok")
          /\ Respond("delete_client", client_id, 200,
                     "Client deleted successfully")
          /\ UNCHANGED <<applications, status_history>>
  /\ session' = [session EXCEPT ![w] = Idle]
  /\ UNCHANGED <<client_uuids, clock, faults, users, shop>>

\* create_application up to its commit: Client.query.get on what is
\* committed, and the tracking id the handler draws
create_application_load(w, actor, client_id, suffix) ==
  /\ session[w].pc = "idle"
  /\ guard(actor, "applications.create") = 0
  /\ client_id \in DOMAIN clients
  /\ Cardinality(DOMAIN applications)
       + Cardinality(Loaded("create_application")) < MaxAppsMany
  /\ HistoryRows + Cardinality(Loaded("update_application_status"))
       + Cardinality(Loaded("create_application")) < MaxHistory
  /\ session' = [session EXCEPT ![w] =
       [pc |-> "loaded", op |-> "create_application", actor |-> actor,
        target |-> client_id, tracking_id |-> tracking_id_of(clock, suffix)]]
  /\ Continue
  /\ UNCHANGED <<store, client_uuids, clock, faults, users, shop>>

\* the INSERT is refused when applications.client_id references no client
references_client(client_id) == client_id \in DOMAIN clients

\* db.session.commit() of create_application and what follows it
create_application_commit(w) ==
  /\ session[w].pc = "loaded"
  /\ session[w].op = "create_application"
  /\ LET client_id == session[w].target
         id == Cardinality(DOMAIN applications) + 1
     IN
     IF ~references_client(client_id)
          \/ ~insert_accepted(session[w].tracking_id)
     THEN Rollback500("create_application", client_id)
     ELSE /\ applications' = applications @@
               (id :> ApplicationRow(session[w].tracking_id, client_id))
          /\ status_history' = status_history @@
               (id :> initial_history(session[w].actor))
          /\ log_user_activity(session[w].actor, "create_application",
                               "application", id, "ok")
          /\ Respond("create_application", client_id, 201,
                     "Application created successfully")
          /\ UNCHANGED clients
  /\ session' = [session EXCEPT ![w] = Idle]
  /\ UNCHANGED <<client_uuids, clock, faults, users, shop>>

\* ------------------------------------------------------------ admin users
\* ids of the User rows create_user adds, in the order they are drawn
UserIdPool == <<"u4", "u5", "u6">>
UsersCreated == Cardinality(DOMAIN users \ StaffIds)
RoomForUser == UsersCreated < MaxUsers /\ UsersCreated < Len(UserIdPool)
ROLES == DOMAIN role_permissions

\* a return of a users route before anything was written
UserEarlyReturn(op, target, code, body) ==
  EarlyReturn(op, target, code, body) /\ UNCHANGED users
UserRollback500(op, target) ==
  Rollback500(op, target) /\ UNCHANGED users

\* variant: delete_user removes the row
users_after_delete_hard(user_id) ==
  [u \in DOMAIN users \ {user_id} |-> users[u]]

\* user.is_active = False
users_after_delete(user_id) ==
  [users EXCEPT ![user_id].is_active = FALSE]

create_user(actor, email, has_required, password_ok, role_ids, outcomes) ==
  /\ LET denied == guard(actor, "users.create")
         id == UserIdPool[UsersCreated + 1]
     IN
     IF denied # 0
     THEN UserEarlyReturn("create_user", "", denied, GuardBody(actor))
     ELSE IF ~has_required
     THEN UserEarlyReturn("create_user", "", 400, "field is required")
     ELSE IF \E u \in DOMAIN users : users[u].email = lower(email)
     THEN UserEarlyReturn("create_user", "", 400,
                          "User with this email already exists")
     ELSE IF ~password_ok
     THEN UserEarlyReturn("create_user", "", 400,
                          "Password must be at least 8 characters long")
     ELSE \E outcome \in outcomes :
          /\ RoomForUser
          /\ StoreDoes(outcome)
          /\ IF outcome = "commit_fails"
             THEN UserRollback500("create_user", "")
             ELSE /\ users' = users @@
                       (id :> UserRow(lower(email), TRUE, role_ids \cap ROLES))
                  /\ log_user_activity(actor, "create_user", "user", id,
                                       outcome)
                  /\ RespondWithRow("create_user", id, 201,
                                    "User created successfully", outcome)
                  /\ UNCHANGED <<clients, client_uuids, applications,
                                 status_history>>
  /\ UNCHANGED <<shop, clock, session>>

\* request.get_json() of PUT /users/<id>: None, or an object with some of
\* email, is_active, role_ids
UserPatches(emails) ==
  {NULL, Some([is_active |-> TRUE]), Some([is_active |-> FALSE]),
   Some([role_ids |-> {"viewer", "no such role"}])}
    \cup {Some([email |-> e]) : e \in emails}
patched_user(row, obj) ==
  [email |-> IF "email" \in DOMAIN obj THEN lower(obj.email) ELSE row.email,
   is_active |-> IF "is_active" \in DOMAIN obj THEN obj.is_active
                 ELSE row.is_active,
   roles |-> IF "role_ids" \in DOMAIN obj THEN obj.role_ids \cap ROLES
             ELSE row.roles]

update_user(actor, user_id, data, outcomes) ==
  /\ LET denied == guard(actor, "users.edit") IN
     IF denied # 0
     THEN UserEarlyReturn("update_user", user_id, denied, GuardBody(actor))
     ELSE IF user_id \notin DOMAIN users
     THEN UserEarlyReturn("update_user", user_id, 404, "User not found")
     ELSE IF data = NULL
     THEN UserEarlyReturn("update_user", user_id, 500,
                          "Internal server error")
     ELSE IF /\ "email" \in DOMAIN data[1]
             /\ \E u \in DOMAIN users :
                  users[u].email = lower(data[1].email) /\ u # user_id
     THEN UserEarlyReturn("update_user", user_id, 400, "Email already exists")
     ELSE \E outcome \in outcomes :
          /\ RoomForAudit
          /\ StoreDoes(outcome)
          /\ IF outcome = "commit_fails"
             THEN UserRollback500("update_user", user_id)
             ELSE /\ users' =
                       [users EXCEPT ![user_id] = patched_user(@, data[1])]
                  /\ log_user_activity(actor, "update_user", "user",
                                       user_id, outcome)
                  /\ RespondWithRow("update_user", user_id, 200,
                                    "User updated successfully", outcome)
                  /\ UNCHANGED <<clients, client_uuids, applications,
                                 status_history>>
  /\ UNCHANGED <<shop, clock, session>>

delete_user(actor, user_id, outcomes) ==
  /\ LET denied == guard(actor, "users.delete") IN
     IF denied # 0
     THEN UserEarlyReturn("delete_user", user_id, denied, GuardBody(actor))
     ELSE IF user_id \notin DOMAIN users
     THEN UserEarlyReturn("delete_user", user_id, 404, "User not found")
     ELSE IF user_id = actor
     THEN UserEarlyReturn("delete_user", user_id, 400,
                          "Cannot delete your own account")
     ELSE \E outcome \in outcomes :
          /\ RoomForAudit
          /\ StoreDoes(outcome)
          /\ IF outcome = "commit_fails"
             THEN UserRollback500("delete_user", user_id)
             ELSE /\ users' = users_after_delete(user_id)
                  /\ log_user_activity(actor, "delete_user", "user",
                                       user_id, outcome)
                  /\ Respond("delete_user", user_id, 200,
                             "User deactivated successfully")
                  /\ UNCHANGED <<clients, client_uuids, applications,
                                 status_history>>
  /\ UNCHANGED <<shop, clock, session>>

\* ------------------------------------------------------------------- auth
\* User.query.filter_by(email=email).first(), email in lower case
login_user(email) == {u \in DOMAIN users : users[u].email = lower(email)}

\* POST /login: has_fields is false for a body without email or password,
\* password_ok is what bcrypt.checkpw returns
login(email, has_fields, password_ok, outcomes) ==
  /\ IF ~has_fields
     THEN UserEarlyReturn("login", "", 400, "Email and password are required")
     ELSE IF login_user(email) = {} \/ ~password_ok
     THEN UserEarlyReturn("login", "", 401, "Invalid credentials")
     ELSE \E user_id \in login_user(email), outcome \in outcomes :
          /\ RoomForAudit
          /\ StoreDoes(outcome)
          /\ log_user_activity(user_id, "login", "auth", NULL, outcome)
          /\ response' =
               IF outcome = "audit_fails"
               THEN [op |-> "login", target |-> "", code |-> 500,
                     body |-> "Internal server error"]
               ELSE [op |-> "login", target |-> user_id, code |-> 200,
                     body |-> "", access_token |-> user_id]
          /\ UNCHANGED <<users, clients, client_uuids, applications,
                         status_history>>
  /\ UNCHANGED <<shop, clock, session>>

\* what supabase.auth.sign_up does: it returns a user, it returns an error,
\* it raises
SignUps == {"ok", "error", "raises"}

\* POST /client/register. The name Client is bound twice on import, last by
\* "from supabase import create_client, Client": Client(first_name=...) is a
\* call of the Supabase client class and raises TypeError after the User row
\* is committed; the except branch answers 500 and rolls nothing back.
client_register(email, has_required, sign_up) ==
  /\ IF ~has_required
     THEN UserEarlyReturn("client_register", "", 400, "field is required")
     ELSE IF sign_up = "error"
     THEN UserEarlyReturn("client_register", "", 400, "sign up failed")
     ELSE IF sign_up = "raises" \/ login_user(email) # {}
     THEN UserEarlyReturn("client_register", "", 500, "Internal server error")
     ELSE /\ RoomForUser
          /\ users' = users @@
               (UserIdPool[UsersCreated + 1] :> UserRow(lower(email), TRUE, {}))
          /\ Respond("client_register", "", 500, "Internal server error")
          /\ UNCHANGED <<clients, client_uuids, applications, status_history,
                         audit_log, faults>>
  /\ UNCHANGED <<shop, clock, session>>

\* ------------------------------------------------------ track_application
\* variant: the whole client row is shown
client_projection_whole_row(row) == row

\* app_data['client']: of the client the name and the e-mail address
client_projection(row) == [first_name |-> row.first_name, email |-> row.email]

\* variant: the rows as they come, not ordered
ordered_by_changed_at_unordered(rows) ==
  {[i \in 1..Len(rows) |-> rows[p[i]]] :
     p \in {q \in [1..Len(rows) -> 1..Len(rows)] :
              \A i, j \in 1..Len(rows) : q[i] = q[j] => i = j}}

\* .order_by(changed_at.asc()).all(): the rows by ascending changed_at, rows
\* of one instant in any order
ordered_by_changed_at(rows) ==
  {[i \in 1..Len(rows) |-> rows[p[i]]] :
     p \in {q \in [1..Len(rows) -> 1..Len(rows)] :
              /\ \A i, j \in 1..Len(rows) : q[i] = q[j] => i = j
              /\ \A i, j \in 1..Len(rows) :
                   i < j => rows[q[i]].changed_at <= rows[q[j]].changed_at}}

\* Application.to_dict(): every column of the row, the primary key included
to_dict(id, row) == [id |-> id] @@ row

\* the answers of GET /applications/track/<tracking_id> on given tables
track_responses(cl, apps, hist, tracking_id) ==
  LET found == {a \in DOMAIN apps : apps[a].tracking_id = tracking_id}
      answer(code, body) == [op |-> "track_application",
                             target |-> tracking_id, code |-> code,
                             body |-> body]
  IN
  IF found = {} THEN {answer(404, "Application not found")}
  ELSE UNION {
         IF apps[a].client_id \notin DOMAIN cl
         THEN {answer(500, "Internal server error")}
         ELSE {answer(200, "") @@
                 [data |-> [application |-> to_dict(a, apps[a]),
                            status_history |-> listed,
                            client |-> client_projection(cl[apps[a].client_id])]] :
               listed \in ordered_by_changed_at(hist[a])} :
         a \in found}

\* public: no token is asked for
track_application(tracking_id) ==
  /\ response' \in
       track_responses(clients, applications, status_history, tracking_id)
  /\ UNCHANGED <<clients, client_uuids, applications, status_history,
                 audit_log, faults, clock, session, users, shop>>

\* -------------------------------------------------------- dashboard
\* GET /dashboard: any staff token is served, a customer token is not
get_dashboard_stats(caller) ==
  /\ IF jwt_required(caller) # 0
     THEN UserEarlyReturn("get_dashboard_stats", "", 401, TokenBody(caller))
     ELSE IF startswith_client(caller)
     THEN UserEarlyReturn("get_dashboard_stats", "", 403, "Access denied")
     ELSE UserEarlyReturn("get_dashboard_stats", "", 200, "stats")
  /\ UNCHANGED <<shop, clock, session>>

\* ------------------------------------------------------------------ tours
\* TourSchema: the six required fields, title of 3 to 100 characters, price
\* not negative, max_participants from 1 to 100
TourFields == {"title", "description", "destination", "price", "duration",
               "max_participants"}
\* the number of characters of the titles that requests send
title_length == [t \in {"", "Safari"} |-> IF t = "" THEN 0 ELSE 6]
ValidTour ==
  [title |-> "Safari", description |-> "Seven days", destination |-> "Kenya",
   price |-> 299, duration |-> 7, max_participants |-> MaxSlots]
\* request.get_json() of POST /api/tours/: a tour, a free tour, the body of
\* test_create_tour_validation_error, one wrong value, one field missing, no
\* object at all
TourBodies ==
  {ValidTour, [ValidTour EXCEPT !.price = 0],
   [title |-> "", price |-> 0 - 100],
   [ValidTour EXCEPT !.title = ""], [ValidTour EXCEPT !.price = 0 - 100],
   [ValidTour EXCEPT !.max_participants = 0],
   [f \in TourFields \ {"duration"} |-> ValidTour[f]], <<>>}

\* variant: price is not range-checked
validate_tour_data_any_price(data) ==
  (TourFields \ DOMAIN data)
    \cup {f \in DOMAIN data \cap {"title"} : title_length[data[f]] < 3}
    \cup {f \in DOMAIN data \cap {"max_participants"} : data[f] < 1 \/ data[f] > 100}

\* err.messages: the fields that are missing or out of range (none: None)
validate_tour_data(data) ==
  (TourFields \ DOMAIN data)
    \cup {f \in DOMAIN data \cap {"title"} : title_length[data[f]] < 3}
    \cup {f \in DOMAIN data \cap {"price"} : data[f] < 0}
    \cup {f \in DOMAIN data \cap {"max_participants"} : data[f] < 1 \/ data[f] > 100}

RoomForTour == Cardinality(DOMAIN tours) < MaxTours
\* Tour(...) of TourService.create_tour, with the places still free
TourRow(data, user_id) ==
  [title |-> data.title, price |-> data.price,
   max_participants |-> data.max_participants,
   available_slots |-> data.max_participants, created_by |-> user_id]

create_tour(caller, data) ==
  /\ IF jwt_required(caller) # 0
     THEN /\ Respond("create_tour", 0, 401, TokenBody(caller))
          /\ UNCHANGED tours
     ELSE IF validate_tour_data(data) # {}
     THEN /\ response' = [op |-> "create_tour", target |-> 0, code |-> 400,
                          body |-> "", success |-> FALSE,
                          errors |-> validate_tour_data(data)]
          /\ UNCHANGED tours
     ELSE /\ RoomForTour
          /\ LET id == Cardinality(DOMAIN tours) + 1 IN
             /\ tours' = tours @@ (id :> TourRow(data, caller))
             /\ response' = [op |-> "create_tour", target |-> id,
                             code |-> 201, body |-> "", success |-> TRUE]
  /\ UNCHANGED <<store, client_uuids, clock, faults, session, users,
                 bookings>>

\* --------------------------------------------------------------- bookings
RoomForBooking ==
  Cardinality(DOMAIN bookings) + Cardinality(Loaded("create_booking"))
    < MaxBookings
BookingRow(user_id, tour_id, participants) ==
  [user_id |-> user_id, tour_id |-> tour_id, participants |-> participants]

\* BookingService.create_booking up to its try: Tour.query.get and the
\* comparison with the places the session has read
create_booking_load(w, caller, tour_id, participants) ==
  /\ session[w].pc = "idle"
  /\ IF jwt_required(caller) # 0
     THEN /\ Respond("create_booking", tour_id, 401, TokenBody(caller))
          /\ UNCHANGED session
     ELSE IF tour_id \notin DOMAIN tours
     THEN /\ \E code \in {404, 500} :
               Respond("create_booking", tour_id, code, "Tour not found")
          /\ UNCHANGED session
     ELSE IF tours[tour_id].available_slots < participants
     THEN /\ \E code \in {400, 500} :
               Respond("create_booking", tour_id, code,
                       "Not enough available slots")
          /\ UNCHANGED session
     ELSE /\ RoomForBooking
          /\ session' = [session EXCEPT ![w] =
               [pc |-> "loaded", op |-> "create_booking", actor |-> caller,
                target |-> tour_id, participants |-> participants,
                available_slots |-> tours[tour_id].available_slots]]
          /\ Continue
  /\ UNCHANGED <<store, client_uuids, clock, faults, users, shop>>

\* tour.available_slots -= participants, on the value the session has read;
\* db.session.add(booking); db.session.commit()
create_booking_commit(w) ==
  /\ session[w].pc = "loaded"
  /\ session[w].op = "create_booking"
  /\ LET id == Cardinality(DOMAIN bookings) + 1
         tour_id == session[w].target
     IN
     /\ tours' = [tours EXCEPT ![tour_id].available_slots =
                    session[w].available_slots - session[w].participants]
     /\ bookings' = bookings @@
          (id :> BookingRow(session[w].actor, tour_id,
                            session[w].participants))
     /\ Respond("create_booking", tour_id, 201,
                "Booking created successfully")
  /\ session' = [session EXCEPT ![w] = Idle]
  /\ UNCHANGED <<store, client_uuids, clock, faults, users>>

\* ------------------------------------------------------------------ clock
Tick ==
  /\ clock < MaxClock
  /\ clock' = clock + 1
  /\ Continue
  /\ UNCHANGED <<clients, client_uuids, applications, status_history,
                 audit_log, faults, session, users, shop>>

\* ---------------------------------------------------------- specification
\* The requests, with what they are drawn from: in.actors the callers,
\* in.emails and in.suffixes the e-mail addresses and tracking suffixes,
\* in.bodies the request bodies, in.flags whether the required fields
\* are present, in.dates the estimated_completion texts, in.outcomes what the
\* store does; in.clients and in.apps are the sizes the two tables grow to.
Handlers(in) ==
  \/ \E actor \in in.actors, email \in in.emails, has_required \in in.flags :
       /\ create_client(actor, email, has_required, in.outcomes)
       /\ client_uuids' <= in.clients
  \/ \E actor \in in.actors, client_id \in 1..in.clients :
       delete_client(actor, client_id, in.outcomes)
  \/ \E actor \in in.actors, client_id \in 1..in.clients,
        has_type \in in.flags, estimated \in in.dates,
        suffix \in in.suffixes :
       /\ create_application(actor, client_id, has_type, estimated, suffix,
                             in.outcomes)
       /\ Cardinality(DOMAIN applications') <= in.apps
  \/ \E actor \in in.actors, application_id \in 1..in.apps,
        data \in in.bodies :
       update_application_status(actor, application_id, data,
                                 in.outcomes)

\* Requests, well-formed or not, of a staff user and of a customer, served
\* one at a time by a store that works.
SpecInputs ==
  [actors |-> {"u1", "client_c1"}, emails |-> {"Ana@X.com"},
   suffixes |-> {"A1"}, flags |-> BOOLEAN,
   bodies |-> {NULL} \cup RequestBodies(RequestedStatuses),
   dates |-> {"valid", "invalid"}, outcomes |-> {"ok"},
   clients |-> MaxClients, apps |-> MaxApps]
Next == Tick \/ Handlers(SpecInputs)
Spec == Init /\ [][Next]_vars

\* Well-formed requests of two staff users, served one at a time by a store
\* that works.
StaffInputs ==
  [actors |-> {"u1", "u2"}, emails |-> {"Ana@X.com"}, suffixes |-> {"A1"},
   bodies |-> RequestBodies({"approved", "rejected", "completed"}), flags |-> {TRUE}, dates |-> {"valid"},
   outcomes |-> {"ok"}, clients |-> MaxClients, apps |-> MaxApps]
StaffNext == Tick \/ Handlers(StaffInputs)
StaffSpec == Init /\ [][StaffNext]_vars

\* Requests served one at a time, within one day, by a store that may fail
\* a commit.
FaultInputs ==
  [actors |-> {"u1"}, emails |-> {"Ana@X.com"}, suffixes |-> {"A1"},
   bodies |-> RequestBodies(ValidStatusSet), flags |-> {TRUE}, dates |-> {"valid"},
   outcomes |-> Outcomes, clients |-> MaxClients, apps |-> MaxApps]
FaultNext == Handlers(FaultInputs)
FaultSpec == Init /\ [][FaultNext]_vars

\* Status updates served concurrently, one per worker, on the applications
\* that well-formed requests have created.
RaceInputs ==
  [actors |-> {"u1", "u2"}, emails |-> {"Ana@X.com"}, suffixes |-> {"A1"},
   bodies |-> RequestBodies(ValidStatusSet), flags |-> {TRUE}, dates |-> {"valid"},
   outcomes |-> {"ok"}, clients |-> MaxClients, apps |-> MaxApps]
RaceNext ==
  \/ Tick
  \/ \E email \in RaceInputs.emails :
       /\ create_client("u1", email, TRUE, RaceInputs.outcomes)
       /\ client_uuids' <= RaceInputs.clients
  \/ \E client_id \in ClientIds, suffix \in RaceInputs.suffixes :
       /\ create_application("u1", client_id, TRUE, "valid", suffix,
                             RaceInputs.outcomes)
       /\ Cardinality(DOMAIN applications') <= RaceInputs.apps
  \/ \E w \in Workers, actor \in RaceInputs.actors, application_id \in AppIds,
        data \in RaceInputs.bodies :
       update_application_status_load(w, actor, application_id, data)
  \/ \E w \in Workers :
       update_application_status_commit(w, RaceInputs.outcomes)
RaceSpec == Init /\ [][RaceNext]_vars

\* Client records created and edited, one request at a time, by a store that
\* works.
ClientInputs ==
  [actors |-> {"u1"}, emails |-> Emails, patches |-> ClientPatches(Emails),
   flags |-> {TRUE}, outcomes |-> {"ok"}, clients |-> MaxClientsMany]
ClientHandlers(in) ==
  \/ \E actor \in in.actors, email \in in.emails, has_required \in in.flags :
       /\ create_client(actor, email, has_required, in.outcomes)
       /\ client_uuids' <= in.clients
  \/ \E actor \in in.actors, client_id \in 1..in.clients,
        data \in in.patches :
       update_client(actor, client_id, data, in.outcomes)
ClientNext == ClientHandlers(ClientInputs)
ClientSpec == Init /\ [][ClientNext]_vars

\* User accounts created, edited and deactivated, one request at a time, by
\* a store that works.
UserIds == StaffIds \cup {UserIdPool[i] : i \in DOMAIN UserIdPool} \cup {"u0"}
UserInputs ==
  [actors |-> {"u1", "u2"}, emails |-> {"Ana@X.com", "u2@x.com"},
   user_ids |-> {"u1", "u2", "u4", "u0"},
   user_patches |-> UserPatches({"ana@x.com", "u2@x.com"}),
   flags |-> BOOLEAN, role_sets |-> {{"viewer"}}, outcomes |-> {"ok"}]
UserHandlers(in) ==
  \/ \E actor \in in.actors, email \in in.emails, has_required \in in.flags,
        password_ok \in in.flags, role_ids \in in.role_sets :
       create_user(actor, email, has_required, password_ok, role_ids,
                   in.outcomes)
  \/ \E actor \in in.actors, user_id \in in.user_ids,
        data \in in.user_patches :
       update_user(actor, user_id, data, in.outcomes)
  \/ \E actor \in in.actors, user_id \in in.user_ids :
       delete_user(actor, user_id, in.outcomes)
UserNext == UserHandlers(UserInputs)
UserSpec == Init /\ [][UserNext]_vars

\* The eight routes that write, of the clients and the admin blueprint.
AdminHandlers(in) ==
  \/ Handlers(in)
  \/ \E actor \in in.actors, client_id \in 1..in.clients,
        data \in in.patches :
       update_client(actor, client_id, data, in.outcomes)
  \/ UserHandlers(in)

\* Requests of a viewer, of a customer and of a caller without a token to
\* the eight routes and the dashboard, one at a time, while an administrator
\* adds clients and accounts and changes the viewer's roles.
AuthInputs ==
  [actors |-> {"u3", "client_c1", "no_token"},
   emails |-> {"Ana@X.com"}, suffixes |-> {"A1"}, flags |-> {TRUE},
   bodies |-> RequestBodies({"approved"}), dates |-> {"valid"},
   outcomes |-> {"ok"}, clients |-> MaxClients, apps |-> MaxApps,
   patches |-> {Some([first_name |-> "Li"])},
   user_ids |-> {"u3", "u4"},
   user_patches |-> {Some([is_active |-> FALSE])},
   role_sets |-> {{"agent"}}]
AuthNext ==
  \/ AdminHandlers(AuthInputs)
  \/ \E caller \in AuthInputs.actors : get_dashboard_stats(caller)
  \/ \E email \in AuthInputs.emails :
       /\ create_client("u1", email, TRUE, AuthInputs.outcomes)
       /\ client_uuids' <= AuthInputs.clients
  \/ \E email \in AuthInputs.emails, role_ids \in AuthInputs.role_sets :
       create_user("u1", email, TRUE, TRUE, role_ids, AuthInputs.outcomes)
  \/ \E role_ids \in {{"agent"}, {"viewer", "no such role"}} :
       update_user("u1", "u3", Some([role_ids |-> role_ids]),
                   AuthInputs.outcomes)
AuthSpec == Init /\ [][AuthNext]_vars

\* The eight writing routes called by an administrator, one request at a
\* time, on a store that may fail the commit of the audit row.
AuditInputs ==
  [actors |-> {"u1"}, emails |-> {"Ana@X.com"}, suffixes |-> {"A1"},
   flags |-> {TRUE}, bodies |-> RequestBodies({"completed"}),
   dates |-> {"valid"}, outcomes |-> {"ok", "audit_fails"},
   clients |-> MaxClients, apps |-> MaxApps,
   patches |-> {Some([first_name |-> "Li"])},
   user_ids |-> {"u2"},
   user_patches |-> {Some([is_active |-> TRUE])},
   role_sets |-> {{"viewer"}}]
AuditNext == AdminHandlers(AuditInputs)
AuditSpec == Init /\ [][AuditNext]_vars

\* Applications of one client created, updated and tracked over the days,
\* one request at a time, by a store that works.
TrackingIds == {tracking_id_of(day, suffix) : day \in Days, suffix \in TrackingSuffixes}
TrackInputs ==
  [actors |-> {"u1"}, emails |-> {"Ana@X.com"}, suffixes |-> TrackingSuffixes,
   flags |-> {TRUE}, bodies |-> RequestBodies({"completed"}),
   dates |-> {"valid"}, outcomes |-> {"ok"},
   clients |-> MaxClients, apps |-> MaxAppsMany,
   patches |-> {Some([passport_number |-> "P2"])}]
TrackNext ==
  \/ Handlers(TrackInputs)
  \/ \E client_id \in 1..TrackInputs.clients, data \in TrackInputs.patches :
       update_client("u1", client_id, data, TrackInputs.outcomes)
  \/ \E tracking_id \in TrackingIds : track_application(tracking_id)
  \/ Tick
TrackSpec == Init /\ [][TrackNext]_vars

\* The client and application requests served concurrently, one per worker,
\* by a store that works.
ConcurrentInputs ==
  [emails |-> {"Ana@X.com", "ana@x.com"}, suffixes |-> {"A1"},
   bodies |-> RequestBodies({"completed", "pending"}), outcomes |-> {"ok"},
   clients |-> 1..MaxClientsMany, apps |-> 1..MaxAppsMany]
ConcurrentNext ==
  \/ \E w \in Workers, email \in ConcurrentInputs.emails :
       create_client_load(w, "u1", email)
  \/ \E w \in Workers : create_client_commit(w)
  \/ \E w \in Workers, client_id \in ConcurrentInputs.clients :
       delete_client_load(w, "u1", client_id)
  \/ \E w \in Workers : delete_client_commit(w)
  \/ \E w \in Workers, client_id \in ConcurrentInputs.clients,
        suffix \in ConcurrentInputs.suffixes :
       create_application_load(w, "u1", client_id, suffix)
  \/ \E w \in Workers : create_application_commit(w)
  \/ \E w \in Workers, application_id \in ConcurrentInputs.apps,
        data \in ConcurrentInputs.bodies :
       update_application_status_load(w, "u1", application_id, data)
  \/ \E w \in Workers :
       update_application_status_commit(w, ConcurrentInputs.outcomes)
ConcurrentSpec == Init /\ [][ConcurrentNext]_vars

\* Self-registration and staff login beside the admin's deactivation and
\* reactivation of accounts.
RegisterInputs ==
  [emails |-> {"Ana@X.com", "u2@x.com"}, flags |-> BOOLEAN,
   sign_ups |-> SignUps, user_ids |-> {"u2", "u4"},
   user_patches |-> {Some([is_active |-> TRUE])}, outcomes |-> {"ok"}]
RegisterNext ==
  \/ \E email \in RegisterInputs.emails, has_required \in RegisterInputs.flags,
        sign_up \in RegisterInputs.sign_ups :
       client_register(email, has_required, sign_up)
  \/ \E email \in RegisterInputs.emails, has_fields \in RegisterInputs.flags,
        password_ok \in RegisterInputs.flags :
       login(email, has_fields, password_ok, RegisterInputs.outcomes)
  \/ \E user_id \in RegisterInputs.user_ids :
       delete_user("u1", user_id, RegisterInputs.outcomes)
  \/ \E user_id \in RegisterInputs.user_ids,
        data \in RegisterInputs.user_patches :
       update_user("u1", user_id, data, RegisterInputs.outcomes)
RegisterSpec == Init /\ [][RegisterNext]_vars

\* Tours created and booked: create_tour one request at a time, create_booking
\* served concurrently, one request per worker.
ShopInputs ==
  [callers |-> {"u1", "no_token"}, bodies |-> TourBodies,
   tour_ids |-> 1..MaxTours, participants |-> 1..MaxSlots]
ShopNext ==
  \/ \E caller \in ShopInputs.callers, data \in ShopInputs.bodies :
       create_tour(caller, data)
  \/ \E w \in Workers, caller \in ShopInputs.callers,
        tour_id \in ShopInputs.tour_ids,
        participants \in ShopInputs.participants :
       create_booking_load(w, caller, tour_id, participants)
  \/ \E w \in Workers : create_booking_commit(w)
ShopSpec == Init /\ [][ShopNext]_vars

\* ------------------------------------------------------------------ claims
Last(h) == h[Len(h)]
Processors == {u \in StaffIds : has_permission(u, "applications.process")}
Deleters == {u \in StaffIds : has_permission(u, "clients.delete")}
\* two addresses are equal ignoring case when these are equal
IgnoringCase(email) == IF email \in {"Ana@X.com", "ana@x.com"} THEN "ana@x.com" ELSE email

\* C1: with requests served one at a time, every application's status is the
\* new_status of the last row of its status history.
C1_StatusIsLastHistory ==
  \A a \in DOMAIN applications :
    /\ a \in DOMAIN status_history
    /\ Len(status_history[a]) >= 1
    /\ applications[a].status = Last(status_history[a]).new_status
C1_Witness ==
  \E a \in DOMAIN applications :
    /\ Len(status_history[a]) = 3
    /\ applications[a].status = "rejected"
    /\ response.op = "update_application_status"
    /\ response.code = 200

\* C2: once two concurrent status updates of an application have both
\* committed, the last history row's new_status is the stored status and
\* every row's old_status is the status that was stored just before that
\* row's transition, that is the new_status of the row before it.
C2_SerializedTransitions ==
  (\A w \in Workers : session[w].pc = "idle") =>
    \A a \in DOMAIN applications :
      LET h == status_history[a] IN
      /\ Last(h).new_status = applications[a].status
      /\ \A i \in 2..Len(h) : h[i].old_status = Some(h[i - 1].new_status)

\* C3: a successful create_application leaves the new application pending
\* with exactly one history row, NULL -> pending; the first row of every
\* history has old_status NULL and no later row has.
C3_CreationRow ==
  /\ \A a \in DOMAIN applications :
       LET h == status_history[a] IN
       /\ Len(h) >= 1
       /\ h[1].old_status = NULL
       /\ h[1].new_status = "pending"
       /\ \A i \in 2..Len(h) : h[i].old_status # NULL
  /\ (response.op = "create_application" /\ response.code = 201) =>
       LET a == Cardinality(DOMAIN applications) IN
       /\ a \in DOMAIN applications
       /\ applications[a].status = "pending"
       /\ applications[a].client_id = response.target
       /\ Len(status_history[a]) = 1
C3_Witness ==
  /\ response.op = "create_application"
  /\ response.code = 201
  /\ DOMAIN applications # {}

\* C4: once an application's actual_completion is set, no later request
\* changes it.
C4_SetOnce ==
  [][\A a \in DOMAIN applications :
       applications[a].actual_completion # NULL =>
         applications'[a].actual_completion = applications[a].actual_completion
    ]_vars
C4_Witness ==
  \E a \in DOMAIN applications :
    LET h == status_history[a] IN
    /\ Len(h) = 3
    /\ h[2].new_status = "completed"
    /\ h[3].new_status = "approved"
    /\ applications[a].actual_completion = Some(0)
    /\ applications[a].updated_at = 1

\* C5: every successful update_application_status, a same-status one
\* included, appends exactly one row: old_status the status before the call,
\* new_status the requested status, changed_by the caller; a same-status call
\* leaves a set actual_completion as it is.
C5_EveryUpdateAppendsOneRow ==
  \A actor \in Processors, a \in DOMAIN applications, s \in ValidStatusSet :
    RoomForHistory =>
      /\ ENABLED update_application_status(actor, a, Some(s), {"ok"})
      /\ ~ENABLED
           (/\ update_application_status(actor, a, Some(s), {"ok"})
            /\ ~(/\ response'.code = 200
                 /\ status_history'[a] =
                      Append(status_history[a],
                             [old_status |-> Some(applications[a].status),
                              new_status |-> s, changed_by |-> actor,
                              changed_at |-> clock])
                 /\ (s = applications[a].status
                       /\ applications[a].actual_completion # NULL
                     => applications'[a].actual_completion
                          = applications[a].actual_completion)))
C5_Witness ==
  \E a \in DOMAIN applications :
    LET h == status_history[a] IN
    /\ Len(h) = 3
    /\ h[1].changed_by = "u1"
    /\ h[3] = [old_status |-> Some("completed"), new_status |-> "completed",
               changed_by |-> "u2", changed_at |-> 1]
    /\ applications[a].actual_completion = Some(0)
    /\ applications[a].updated_at = 1
    /\ response.code = 200

\* C6: there is no adjacency graph: an authorized caller may set any of the
\* five statuses from any current status, terminal ones included, and a
\* stored status is always one of the five.
C6_NoAdjacencyGraph ==
  /\ \A a \in DOMAIN applications : applications[a].status \in ValidStatusSet
  /\ \A actor \in Processors, a \in DOMAIN applications, s \in ValidStatusSet :
       /\ update_rejected(actor, a, Some(s)).code = 0
       /\ RoomForHistory =>
            ENABLED (/\ update_application_status(actor, a, Some(s), {"ok"})
                     /\ response'.code = 200
                     /\ applications'[a].status = s)
C6_Witness ==
  \E a \in DOMAIN applications :
    LET h == status_history[a] IN
    /\ Len(h) = 3
    /\ h[2].new_status = "completed"
    /\ h[3].old_status = Some("completed")
    /\ h[3].new_status = "pending"
    /\ h[3].changed_by = "u1"
    /\ applications[a].status = "pending"
    /\ response.code = 200

\* C7: an update_application_status call of an authorized caller that names
\* an unknown application is answered 404, one whose status is missing or
\* not one of the five 400, and either leaves clients, applications (status,
\* actual_completion, updated_at), the status history and the audit log as
\* they were; so does a call that carries no JSON object at all.
C7_ValidationBeforeMutation ==
  \A actor \in Processors, id \in AppIds,
     data \in {NULL} \cup RequestBodies(RequestedStatuses) :
    LET unknown == id \notin DOMAIN applications
        bad == data # NULL /\ data[1] \notin ValidStatusSet
    IN  (unknown \/ bad \/ data = NULL) =>
          /\ ENABLED update_application_status(actor, id, data, Outcomes)
          /\ ~ENABLED
               (/\ update_application_status(actor, id, data, Outcomes)
                /\ ~(/\ unknown => response'.code = 404
                     /\ ~unknown /\ bad => response'.code = 400
                     /\ UNCHANGED store))
C7_Witness ==
  /\ response.op = "update_application_status"
  /\ response.code = 400
  /\ response.body = "Invalid status"
  /\ \E a \in DOMAIN applications :
       /\ response.target = a
       /\ Len(status_history[a]) = 2
       /\ applications[a].status = "processing"
       /\ applications[a].updated_at = 0
       /\ clock = 1

\* C8: a status update whose COMMIT fails is answered 500 and persists
\* nothing, neither the status nor the history row nor an audit row; so the
\* stored status is never without its history row, nor a row without it.
C8_AtomicTransition ==
  /\ \A a \in DOMAIN applications :
       applications[a].status = Last(status_history[a]).new_status
  /\ \A actor \in Processors, a \in DOMAIN applications, s \in ValidStatusSet :
       (RoomForHistory /\ faults < MaxFaults) =>
         /\ ENABLED update_application_status(actor, a, Some(s), {"commit_fails"})
         /\ ~ENABLED
              (/\ update_application_status(actor, a, Some(s), {"commit_fails"})
               /\ ~(/\ response'.code = 500
                    /\ UNCHANGED store))
C8_Witness ==
  /\ response.op = "update_application_status"
  /\ response.code = 500
  /\ faults = 1
  /\ \E a \in DOMAIN applications :
       /\ Len(status_history[a]) = 2
       /\ applications[a].status = "processing"
       /\ CopiesIn(AuditRow("u1", "update_application_status",
                            "application", a), audit_log) = 1

\* C9: delete_client of a client that has a pending or processing
\* application fails with the conflict answer (400, 'Cannot delete client
\* with active applications') and leaves the client, the applications, the
\* status history and the audit log as they were.
C9_DeleteConflict ==
  \A actor \in Deleters, c \in DOMAIN clients :
    (\E a \in DOMAIN applications :
        /\ applications[a].client_id = c
        /\ applications[a].status \in {"pending", "processing"}) =>
      /\ ENABLED delete_client(actor, c, Outcomes)
      /\ ~ENABLED
           (/\ delete_client(actor, c, Outcomes)
            /\ ~(/\ response'.code = 400
                 /\ response'.body =
                      "Cannot delete client with active applications"
                 /\ UNCHANGED store))
C9_Witness ==
  /\ response.op = "delete_client"
  /\ response.code = 400
  /\ response.body = "Cannot delete client with active applications"
  /\ response.target \in DOMAIN clients
  /\ \E a \in DOMAIN applications :
       /\ applications[a].client_id = response.target
       /\ applications[a].status = "processing"

\* C10: when the only application of a client has moved from processing to
\* completed, a delete_client of that client by a caller with the permission
\* succeeds and the client is gone.
C10_DeleteAfterCompletion ==
  [][\A c \in DOMAIN clients :
       (/\ Cardinality({a \in DOMAIN applications :
                          applications[a].client_id = c}) = 1
        /\ \A a \in DOMAIN applications :
             applications[a].client_id = c =>
               /\ applications[a].status = "completed"
               /\ Last(status_history[a]).old_status = Some("processing")
        /\ response'.op = "delete_client"
        /\ response'.target = c
        /\ response'.code # 403)
       => (response'.code = 200 /\ c \notin DOMAIN clients')
    ]_vars

\* C11: with create_client and update_client served one at a time, stored
\* e-mail addresses are in lower case and no two clients have addresses that
\* are equal ignoring case; a create_client or update_client whose address
\* equals another client's ignoring case is refused (400, '... already
\* exists') and stores nothing.
C11_EmailUniqueIgnoringCase ==
  /\ \A c \in DOMAIN clients :
       /\ clients[c].email = IgnoringCase(clients[c].email)
       /\ \A d \in DOMAIN clients :
            IgnoringCase(clients[c].email) = IgnoringCase(clients[d].email) => c = d
  /\ \A email \in Emails :
       (\E c \in DOMAIN clients : IgnoringCase(clients[c].email) = IgnoringCase(email)) =>
         /\ ENABLED create_client("u1", email, TRUE, Outcomes)
         /\ ~ENABLED
              (/\ create_client("u1", email, TRUE, Outcomes)
               /\ ~(/\ response'.code = 400
                    /\ response'.body = "Client with this email already exists"
                    /\ UNCHANGED <<store, client_uuids>>))
  /\ \A c \in DOMAIN clients, email \in Emails :
     \A data \in {Some([email |-> email]),
                  Some([first_name |-> "Li", email |-> email])} :
       (\E d \in DOMAIN clients :
           d # c /\ IgnoringCase(clients[d].email) = IgnoringCase(email)) =>
         /\ ENABLED update_client("u1", c, data, Outcomes)
         /\ ~ENABLED
              (/\ update_client("u1", c, data, Outcomes)
               /\ ~(/\ response'.code = 400
                    /\ response'.body = "Email already exists"
                    /\ UNCHANGED <<store, client_uuids>>))
C11_Witness ==
  /\ response.op = "update_client"
  /\ response.code = 400
  /\ response.body = "Email already exists"
  /\ Cardinality(DOMAIN clients) = 2
  /\ \E c \in DOMAIN clients : clients[c].first_name = "Li"

\* C15: users are never hard-deleted: the set of stored user ids never
\* shrinks, and a delete_user that succeeds changes of the users table only
\* is_active of the target user, to FALSE.
C15_UsersNeverDeleted ==
  [][/\ DOMAIN users \subseteq DOMAIN users'
     /\ (response'.op = "delete_user" /\ response'.code = 200) =>
          /\ response'.target \in DOMAIN users
          /\ users' = [users EXCEPT ![response'.target].is_active = FALSE]
    ]_vars
C15_Witness ==
  /\ response.op = "delete_user"
  /\ response.code = 200
  /\ response.target = "u4"
  /\ "u4" \in DOMAIN users
  /\ ~users["u4"].is_active
  /\ users["u2"].is_active

\* The permission each guarded route names in its decorator, and a request
\* to the route with any arguments, its target stored or not.
Requires ==
  [create_client |-> "clients.create", update_client |-> "clients.edit",
   delete_client |-> "clients.delete",
   create_application |-> "applications.create",
   update_application_status |-> "applications.process",
   create_user |-> "users.create", update_user |-> "users.edit",
   delete_user |-> "users.delete"]
GuardedOps == DOMAIN Requires
Targets(op) ==
  CASE op \in {"update_client", "delete_client", "create_application"} ->
         1..MaxClientsMany
    [] op = "update_application_status" -> 1..MaxAppsMany
    [] op \in {"update_user", "delete_user"} -> UserIds
    [] OTHER -> {0}
CallOn(op, caller, target, outcomes) ==
  CASE op = "create_client" ->
         \E email \in Emails : create_client(caller, email, TRUE, outcomes)
    [] op = "update_client" ->
         update_client(caller, target, Some([first_name |-> "Li"]), outcomes)
    [] op = "delete_client" -> delete_client(caller, target, outcomes)
    [] op = "create_application" ->
         create_application(caller, target, TRUE, "valid", "A1", outcomes)
    [] op = "update_application_status" ->
         update_application_status(caller, target, Some("approved"),
                                   outcomes)
    [] op = "create_user" ->
         \E email \in Emails :
           create_user(caller, email, TRUE, TRUE, {"viewer"}, outcomes)
    [] op = "update_user" ->
         update_user(caller, target, Some([is_active |-> TRUE]), outcomes)
    [] op = "delete_user" -> delete_user(caller, target, outcomes)
Call(op, caller) ==
  \E target \in Targets(op) : CallOn(op, caller, target, {"ok"})
\* the request is answered, and every way of answering it is (code, body)
\* with nothing written
Refused(op, caller, code, body) ==
  /\ ENABLED Call(op, caller)
  /\ ~ENABLED (Call(op, caller)
               /\ ~(/\ response'.code = code
                    /\ response'.body = body
                    /\ UNCHANGED <<store, client_uuids, users>>))
EffectivePermissions(user) ==
  UNION {role_permissions[r] : r \in users[user].roles}

\* C12: a staff user whose roles do not together grant the permission a
\* guarded route requires is answered 403 and nothing is written; so a user
\* with clients.view only cannot update a client.
C12_PermissionRequired ==
  \A caller \in DOMAIN users, op \in GuardedOps :
    Requires[op] \notin EffectivePermissions(caller) =>
      Refused(op, caller, 403, "Insufficient permissions")
C12_Witness ==
  /\ response.op = "update_client"
  /\ response.code = 403
  /\ response.body = "Insufficient permissions"
  /\ response.target \in DOMAIN clients
  /\ EffectivePermissions("u3") = {"clients.view"}
  /\ clients[response.target].first_name = "Ana"

\* C13: a customer identity (prefix client_) is refused with 403 'Access
\* denied' by every guarded route and by the dashboard, whatever users,
\* roles and permissions are stored, and nothing is written.
C13_CustomerDenied ==
  \A caller \in CustomerIdentities :
    /\ \A op \in GuardedOps : Refused(op, caller, 403, "Access denied")
    /\ ENABLED get_dashboard_stats(caller)
    /\ ~ENABLED (get_dashboard_stats(caller)
                 /\ ~(/\ response'.code = 403
                      /\ response'.body = "Access denied"
                      /\ UNCHANGED <<store, client_uuids, users>>))
C13_Witness ==
  /\ response.op = "get_dashboard_stats"
  /\ response.code = 403
  /\ response.body = "Access denied"
  /\ "u4" \in DOMAIN users
  /\ clients # <<>>

\* C14: a request without a usable token is answered 401 before the
\* permission check, on every guarded route; a caller with a token who is a
\* customer, has no user row or lacks the permission is answered 403, never
\* 401 or 404, whether or not the target of the request is stored.
C14_DenyIsForbidden ==
  \A op \in GuardedOps :
    /\ \A caller \in TokenErrors : Refused(op, caller, 401, TokenBody(caller))
    /\ \A caller \in Identities \cup DOMAIN users :
         (\/ caller \in CustomerIdentities
          \/ caller \notin DOMAIN users
          \/ Requires[op] \notin EffectivePermissions(caller)) =>
           Refused(op, caller, 403,
                   IF caller \in CustomerIdentities THEN "Access denied"
                   ELSE "Insufficient permissions")
C14_Witness ==
  /\ response.op = "delete_user"
  /\ response.code = 403
  /\ response.target \notin DOMAIN users
  /\ clients # <<>>

\* The audit row of a request that was served: who asked, the route, the
\* kind of resource, and the id of the row the route wrote.
ResourceType(op) ==
  CASE op \in {"create_client", "update_client", "delete_client"} -> "client"
    [] op \in {"create_application", "update_application_status"} ->
         "application"
    [] OTHER -> "user"
Recorded(op, caller, target) ==
  \E resource_id \in
       CASE op = "create_client" -> DOMAIN clients' \ DOMAIN clients
         [] op = "create_application" ->
              DOMAIN applications' \ DOMAIN applications
         [] op = "create_user" -> DOMAIN users' \ DOMAIN users
         [] OTHER -> {target} :
    audit_log' = audit_log (+)
      SetToBag({AuditRow(caller, op, ResourceType(op), resource_id)})
Succeeds == response'.code \in {200, 201}
\* the callers the route lets in
Permitted(op) ==
  {user \in DOMAIN users : Requires[op] \in EffectivePermissions(user)}
AuditWriteFails == faults' = faults + 1 /\ audit_log' = audit_log

\* C16 (as stated): every one of the eight writing routes that answers
\* success to a caller it lets in has added, in the same request, one audit row with the acting
\* user, the action, the resource type and the resource id.
C16_SuccessIsAudited ==
  \A op \in GuardedOps :
  \A caller \in Permitted(op), target \in Targets(op) :
    ~ENABLED (/\ CallOn(op, caller, target, Outcomes)
              /\ Succeeds
              /\ ~Recorded(op, caller, target))
\* C16 (amended): every one of the eight writing routes that answers
\* success to a caller it lets in has added that audit row, unless the write of the audit row
\* failed; delete_client and delete_user are the only routes that answer
\* success then, and they leave no audit row.
C16_SuccessIsAuditedUnlessAuditFails ==
  \A op \in GuardedOps :
  \A caller \in Permitted(op), target \in Targets(op) :
    ~ENABLED (/\ CallOn(op, caller, target, Outcomes)
              /\ Succeeds
              /\ ~Recorded(op, caller, target)
              /\ ~(AuditWriteFails /\ op \in {"delete_client", "delete_user"}))
C16_Witness ==
  /\ response.op = "update_application_status"
  /\ response.code = 200
  /\ faults = 0
  /\ [user_id |-> "u1", action |-> "update_application_status",
      resource_type |-> "application", resource_id |-> 1]
       \in BagToSet(audit_log)

\* C17: a request whose audit row cannot be written keeps what it
\* committed and is answered success, not 500.
C17_AuditFailureIsIsolated ==
  \A op \in GuardedOps :
  \A caller \in Permitted(op), target \in Targets(op) :
    ~ENABLED (/\ CallOn(op, caller, target, {"audit_fails"})
              /\ AuditWriteFails
              /\ ~Succeeds)

\* C18: the status history is append-only: in every step each application's
\* history stays, with the rows it had unchanged at their places, and new
\* rows only after them.
C18_HistoryAppendOnly ==
  [][\A a \in DOMAIN status_history :
       /\ a \in DOMAIN status_history'
       /\ Len(status_history'[a]) >= Len(status_history[a])
       /\ \A i \in 1..Len(status_history[a]) :
            status_history'[a][i] = status_history[a][i]
    ]_vars
C18_Witness ==
  /\ response.op = "delete_client"
  /\ response.code = 500
  /\ \E a \in DOMAIN status_history :
       /\ Len(status_history[a]) = 2
       /\ status_history[a][1].old_status = NULL
       /\ status_history[a][2].new_status = "completed"

\* C19: no two applications have the same tracking_id; no step changes the
\* tracking_id of a stored application; and a create_application whose
\* tracking_id is already stored is answered 500 and stores neither the
\* application nor a history row.
C19_TrackingIdUniqueAndFixed ==
  /\ [](/\ \A a, b \in DOMAIN applications :
             applications[a].tracking_id = applications[b].tracking_id => a = b
        /\ \A c \in DOMAIN clients, suffix \in TrackingSuffixes :
             (/\ RoomForApplication
              /\ RoomForHistory
              /\ \E a \in DOMAIN applications :
                   applications[a].tracking_id = <<clock, suffix>>) =>
               /\ ENABLED create_application("u1", c, TRUE, "valid", suffix,
                                             {"ok"})
               /\ ~ENABLED (/\ create_application("u1", c, TRUE, "valid",
                                                  suffix, {"ok"})
                            /\ ~(/\ response'.code = 500
                                 /\ UNCHANGED <<applications,
                                                status_history>>)))
  /\ [][\A a \in DOMAIN applications :
          /\ a \in DOMAIN applications'
          /\ applications'[a].tracking_id = applications[a].tracking_id
       ]_vars
C19_Witness ==
  /\ response.op = "create_application"
  /\ response.code = 500
  /\ Cardinality(DOMAIN applications) = 1
  /\ Cardinality(DOMAIN status_history) = 1
  /\ \E a \in DOMAIN applications : applications[a].tracking_id[1] = clock

\* C20: what track_application answers does not depend on the passport
\* number of the client: of the client it shows the name and the e-mail
\* address only; and it lists every row of the application's history, in
\* ascending order of changed_at.
Passports == {"P1", "P2"}
SameRows(listed, rows) ==
  /\ Len(listed) = Len(rows)
  /\ \A row \in {rows[i] : i \in 1..Len(rows)} :
       Cardinality({i \in 1..Len(rows) : rows[i] = row})
         = Cardinality({i \in 1..Len(listed) : listed[i] = row})
C20_TrackShowsNameEmailHistory ==
  \A tracking_id \in TrackingIds :
    /\ \A c \in DOMAIN clients, passport \in Passports :
         track_responses([clients EXCEPT ![c].passport_number = passport],
                         applications, status_history, tracking_id)
           = track_responses(clients, applications, status_history,
                             tracking_id)
    /\ \A a \in DOMAIN applications :
         applications[a].tracking_id = tracking_id =>
           /\ ENABLED track_application(tracking_id)
           /\ ~ENABLED (/\ track_application(tracking_id)
                        /\ ~(/\ response'.code = 200
                             /\ response'.data.client =
                                  [first_name |->
                                     clients[applications[a].client_id].first_name,
                                   email |->
                                     clients[applications[a].client_id].email]
                             /\ SameRows(response'.data.status_history,
                                         status_history[a])
                             /\ \A i, j \in
                                    1..Len(response'.data.status_history) :
                                  i < j =>
                                    response'.data.status_history[i].changed_at
                                      <= response'.data.status_history[j].changed_at))
C20_Witness ==
  /\ response.op = "track_application"
  /\ response.code = 200
  /\ Len(response.data.status_history) = 2
  /\ response.data.status_history[1].changed_at
       < response.data.status_history[2].changed_at
  /\ response.data.client = [first_name |-> "Ana", email |-> "ana@x.com"]
  /\ \E c \in DOMAIN clients : clients[c].passport_number = "P2"

\* C21: what the public track_application answers holds no internal id of
\* the store: not the id of the application, not the id of its client, not
\* the ids of the staff users who changed its status.
InternalIdColumns == {"id", "client_id", "assigned_to", "changed_by"}
C21_TrackHidesInternalIds ==
  (response.op = "track_application" /\ response.code = 200) =>
    /\ DOMAIN response.data.application \cap InternalIdColumns = {}
    /\ \A i \in 1..Len(response.data.status_history) :
         DOMAIN response.data.status_history[i] \cap InternalIdColumns = {}

\* C22: create_application for a client id that is not stored is answered
\* 404, one without application_type or with an estimated_completion that
\* is not a YYYY-MM-DD date 400, and either stores no application and no
\* history row.
C22_CreateApplicationRejects ==
  \A client_id \in 1..MaxClientsMany, has_type \in BOOLEAN :
  \A estimated \in {"valid", "invalid"} :
    (client_id \notin DOMAIN clients \/ ~has_type \/ estimated = "invalid") =>
      /\ ENABLED create_application("u1", client_id, has_type, estimated,
                                    "A1", {"ok"})
      /\ ~ENABLED (/\ create_application("u1", client_id, has_type,
                                         estimated, "A1", {"ok"})
                   /\ ~(/\ response'.code =
                             IF client_id \notin DOMAIN clients THEN 404
                             ELSE 400
                        /\ UNCHANGED <<applications, status_history>>))

\* C25: an application's actual_completion is set exactly when its history
\* has a row to completed or approved, and then it is the day of the first
\* such row; creation and rows to pending, processing or rejected do not
\* set it.
Completing(h) == {i \in 1..Len(h) : h[i].new_status \in {"completed", "approved"}}
C25_CompletionIffCompletingRow ==
  \A a \in DOMAIN applications :
    LET h == status_history[a] IN
    IF Completing(h) = {}
    THEN applications[a].actual_completion = NULL
    ELSE applications[a].actual_completion =
           Some(h[CHOOSE i \in Completing(h) :
                    \A j \in Completing(h) : i <= j].changed_at)
C25_Witness ==
  \E a \in DOMAIN applications :
    LET h == status_history[a] IN
    /\ Len(h) = 3
    /\ h[2].new_status = "rejected"
    /\ h[2].changed_at = 0
    /\ h[3].new_status = "approved"
    /\ h[3].changed_at = 1
    /\ applications[a].actual_completion = Some(1)

FailsTourValidation(data) ==
  \/ \E f \in TourFields : f \notin DOMAIN data
  \/ "title" \in DOMAIN data /\ data.title = ""
  \/ "price" \in DOMAIN data /\ data.price < 0
C24_InvalidTourRejected ==
  \A data \in TourBodies :
    FailsTourValidation(data) =>
      /\ ENABLED create_tour("u1", data)
      /\ ~ENABLED (/\ create_tour("u1", data)
                   /\ ~(/\ response'.code = 400
                        /\ response'.success = FALSE
                        /\ response'.errors # {}
                        /\ UNCHANGED tours))
C24_Witness ==
  /\ response.op = "create_tour"
  /\ response.code = 400
  /\ response.success = FALSE
  /\ response.errors = TourFields
  /\ DOMAIN tours = {1}

\* C30: create_booking never oversells a tour: its available_slots is never
\* negative, and the participants of its stored bookings sum to at most the
\* places it started with.
RECURSIVE Booked(_, _)
Booked(tour_id, n) ==
  IF n = 0 THEN 0
  ELSE Booked(tour_id, n - 1)
         + (IF bookings[n].tour_id = tour_id THEN bookings[n].participants
            ELSE 0)
C26_ActiveApplicationHasClient ==
  \A a \in DOMAIN applications :
    applications[a].status \in {"pending", "processing"} =>
      applications[a].client_id \in DOMAIN clients
\* a delete that passed its check was refused, the application then went back
\* to pending
C26_Witness ==
  /\ response.op = "update_application_status"
  /\ response.code = 200
  /\ \E a \in DOMAIN applications :
       /\ applications[a].status = "pending"
       /\ Len(status_history[a]) = 3
       /\ \E r \in DOMAIN audit_log : r.action = "create_client"
       /\ faults = 0
  /\ \E w \in Workers : session[w].op = "delete_client"

\* C27: of two concurrent create_client requests whose e-mail addresses are
\* equal ignoring case at most one succeeds: no two clients are stored with
\* the same lower-case e-mail address.
C27_ConcurrentEmailUnique ==
  \A c, d \in DOMAIN clients :
    IgnoringCase(clients[c].email) = IgnoringCase(clients[d].email) => c = d

\* C28: client_register is all-or-nothing on the local store: a call leaves a
\* new User and a new Client, or neither of them.
C28_RegisterAllOrNothing ==
  [][response'.op = "client_register" =>
       ((users' # users) <=> (clients' # clients))]_vars

\* C29: a user deactivated by delete_user is refused at login, whatever the
\* credentials, until update_user makes the account active again: login
\* issues a token to active users only.
C29_InactiveLoginRejected ==
  [][(response'.op = "login" /\ response'.code = 200) =>
       users[response'.access_token].is_active]_vars
====
